---- MODULE Spec2Model ----
(***************************************************************************)
(* The chat panel component of dev-lin2/chat-kit-agent                     *)
(* (src/webparts/chatKitAgent/components/ChatKitAgent.tsx), the web part   *)
(* that renders it, and the page-global script loader, as a state machine. *)
(* One action is one browser task: a click handler with the render and the *)
(* effect it causes, a property-pane change with its render, a script      *)
(* event, the resumption of an awaiting mountChatIfNeeded, an invocation   *)
(* of the getClientSecret callback by the widget, the completion of a      *)
(* fetch.                                                                  *)
(***************************************************************************)
EXTENDS Integers, Sequences, FiniteSets, TLC

VARIABLES
    properties,     \* the web part's property bag: [lambdaUrl, workflowId]
    open,           \* useState open
    busy,           \* useState busy
    error,          \* useState error (a message, NoText when empty)
    hostRef,        \* hostRef.current: 0 (null) or the id of the rendered host <div>
    hostKids,       \* children of the rendered host <div>: sequence of element ids
    chatElRef,      \* chatElRef.current: 0 (null) or an element id
    tokenRef,       \* tokenRef.current: NoToken or [clientSecret, expiresAt]
    initSeqRef,     \* initSeqRef.current
    attempts,       \* the invocations of mountChatIfNeeded that passed its guards, by seq
    lastMount,      \* where this step's invocation of mountChatIfNeeded left its synchronous part, if any
    windowPromise,  \* window.__OPENAI_CHATKIT_SCRIPT_LOADING__: 0 (undefined) or a promise id
    promises,       \* state of every promise the loader created, by id
    listeners,      \* ids of the promises whose load/error listeners sit on the script tag
    scriptTag,      \* the <script src=chatkit.js> of the document
    inserted,       \* script elements this code appended to document.head
    defined,        \* customElements.get("openai-chatkit") is set
    otherCalls,     \* the promises handed to other component instances of the page
    setOptionsCalls,\* per element id: how often setOptions was invoked on it
    inflight,       \* POSTs to the token endpoint that have not completed
    lastCb,         \* what this step did as a step of a getClientSecret invocation, if it was one
    initializingRef,\* initializingRef.current of the component of part_001
    afterReset,     \* history: resetConversation ran and the callback was not invoked since
    now,            \* the page's clock, Date.now()
    mintedFor,      \* history: the configuration of the fetch whose answer tokenRef holds
    inFlightAtReset \* history: the attempts that awaited when resetConversation ran and still await

vars == <<properties, open, busy, error, hostRef, hostKids, chatElRef, tokenRef,
          initSeqRef, attempts, lastMount, windowPromise, promises, listeners,
          scriptTag, inserted, defined, otherCalls, setOptionsCalls, inflight,
          lastCb, initializingRef, afterReset, inFlightAtReset, now, mintedFor>>

loaderVars == <<windowPromise, promises, listeners, scriptTag, inserted>>
credVars == <<tokenRef, inflight, mintedFor>>

\* a step that is no step of the callback
NoCb == [kind |-> "none", value |-> <<>>, current |-> "undefined", status |-> "", body |-> ""]
NotCallback == lastCb' = NoCb /\ UNCHANGED credVars

(***************************************************************************)
(* Bounds of the model.                                                    *)
(***************************************************************************)
\* cap on initSeqRef.current: open/close/remount stop bumping it there
MaxSeq == 3
\* cap on the POSTs in flight at one time
MaxInflight == 1
\* cap on the elements the component of part_001 creates
MaxElements == 2
\* the instant the page loads, and a later instant the clock jumps to
FirstInstant == 1600
LastInstant == 1800

(***************************************************************************)
(* Strings are sequences of characters, so that trim() is computed.        *)
(* A JS value that is undefined is the one-element sequence <<Undefined>>. *)
(***************************************************************************)
Undefined == "undefined"
NoText == <<>>

IsSpace(c) == c = " "

RECURSIVE TrimStart(_)
TrimStart(s) ==
    IF s # <<>> /\ IsSpace(Head(s)) THEN TrimStart(Tail(s)) ELSE s

RECURSIVE TrimEnd(_)
TrimEnd(s) ==
    IF s # <<>> /\ IsSpace(s[Len(s)]) THEN TrimEnd(SubSeq(s, 1, Len(s) - 1)) ELSE s

\* String.prototype.trim
Trim(s) == TrimEnd(TrimStart(s))

\* JS `v || d` on string | undefined: undefined and "" are falsy
OrElse(v, d) == IF v = <<Undefined>> \/ v = <<>> THEN d ELSE v

DefaultUser == <<"sharepoint-user">>

\* this.context.pageContext.user?.loginName of the page
LoginName == <<Undefined>>

\* ChatKitAgentWebPart._getUserId
GetUserId(loginName) ==
    IF loginName # <<Undefined>> /\ loginName # <<>> /\ Trim(loginName) # <<>>
    THEN loginName ELSE DefaultUser

\* ChatKitAgentWebPart.render: the props handed to the component
RenderProps(p) ==
    [lambdaUrl  |-> Trim(OrElse(p.lambdaUrl, <<>>)),
     workflowId |-> Trim(OrElse(p.workflowId, <<>>)),
     userId     |-> GetUserId(LoginName)]

\* ChatKitAgent lines 83-85: the trimmed configuration of a render
Config(p) ==
    LET props == RenderProps(p) IN
    [lambdaUrl  |-> Trim(OrElse(props.lambdaUrl, <<>>)),
     workflowId |-> Trim(OrElse(props.workflowId, <<>>)),
     userId     |-> Trim(OrElse(props.userId, DefaultUser))]

\* ChatKitAgent line 88
HasConfig(c) == c.lambdaUrl # <<>> /\ c.workflowId # <<>>

\* values the property pane can hold
UrlValues == {<<Undefined>>, <<"a">>, <<"b", " ">>}
WorkflowValues == {<<" ">>, <<"w">>}
PropertyBags ==
    { [lambdaUrl |-> <<Undefined>>, workflowId |-> <<"w">>],
      [lambdaUrl |-> <<"a">>,       workflowId |-> <<"w">>],
      [lambdaUrl |-> <<"b", " ">>,  workflowId |-> <<"w">>],
      [lambdaUrl |-> <<"a">>,       workflowId |-> <<" ">>] }

(***************************************************************************)
(* The script loader, loadChatKitScriptOnce (lines 19-43).                 *)
(***************************************************************************)
\* line 20 without the memo: every call builds a promise
HasLoadingPromiseNever(w) == FALSE

\* line 20: the page-global promise is set
HasLoadingPromise(w) == w # 0

\* line 26/28: document.querySelector finds a script tag of the resource
ExistingScript(tag) == tag # "absent"

\* the promise a call of loadChatKitScriptOnce returns
LoaderReturns ==
    IF HasLoadingPromise(windowPromise) THEN windowPromise ELSE Len(promises) + 1

\* the effect of a call of loadChatKitScriptOnce on the page
LoadChatKitScriptOnce ==
    IF HasLoadingPromise(windowPromise)
    THEN UNCHANGED loaderVars
    ELSE /\ windowPromise' = Len(promises) + 1
         /\ promises' = Append(promises, "pending")
         /\ listeners' = listeners \cup {Len(promises) + 1}
         /\ IF ExistingScript(scriptTag)
            THEN UNCHANGED <<scriptTag, inserted>>
            ELSE /\ scriptTag' = "loading"
                 /\ inserted' = inserted + 1

\* the settled state of the promises whose listeners an event of the tag runs
Settle(ps, ls, outcome) ==
    [i \in 1..Len(ps) |-> IF i \in ls THEN outcome ELSE ps[i]]

(***************************************************************************)
(* The component (lines 82-207).                                           *)
(***************************************************************************)
NoAttempt == [stage |-> "none", host |-> 0, cfg |-> Config([lambdaUrl |-> <<>>, workflowId |-> <<>>]), promise |-> 0]

\* the message the variant of part_001 sets when the configuration is missing
ConfigRequiredMessage == <<"Configure Lambda URL and Workflow ID in the web part settings.">>

ScriptLoadError == <<"Failed to load ChatKit script">>
DefinitionTimeoutError == <<"Timed out waiting for ", "openai-chatkit">>
SetOptionsError == <<"setOptions threw">>

\* Node.contains restricted to the children of the host
Contains(kids, el) == \E i \in 1..Len(kids) : kids[i] = el

\* line 120
MountGuard(o, c) == o /\ HasConfig(c)

\* line 126
AlreadyMounted(el, kids) == el # 0 /\ Contains(kids, el)

\* lines 129-130 reusing the counter's value for the new attempt
StartSeqReused(cur) == cur

\* lines 129-130: start new init sequence
StartSeq(cur) == cur + 1

\* line 133 left out: the error text of the earlier attempt stays
StartErrorKept(e) == e

\* line 133: setError("")
StartError(e) == NoText

\* mountChatIfNeeded up to its first await (lines 119-136), run by the effect of
\* a render with open flag o, configuration c, host h, handle el, host children
\* kids, and the sequence counter and busy flag the handler left
MountChatIfNeeded(o, c, h, el, kids, seqNow, busyNow) ==
    IF ~MountGuard(o, c) \/ h = 0 \/ AlreadyMounted(el, kids)
    THEN /\ lastMount' = (IF ~MountGuard(o, c) THEN "return120"
                          ELSE IF h = 0 THEN "return123" ELSE "return126")
         /\ initSeqRef' = seqNow
         /\ busy' = busyNow
         /\ UNCHANGED <<error, attempts>>
         /\ UNCHANGED loaderVars
    ELSE /\ lastMount' = "started"
         /\ initSeqRef' = StartSeq(seqNow)
         /\ busy' = TRUE
         /\ error' = StartError(error)
         /\ attempts' = [attempts EXCEPT ![StartSeq(seqNow)] =
                           [stage |-> "script", host |-> h, cfg |-> c,
                            promise |-> LoaderReturns]]
         /\ LoadChatKitScriptOnce

\* toggle (lines 198-207) when the panel is closed, with the render and effect
ToggleOpen ==
    /\ ~open
    /\ HasConfig(Config(properties))          \* line 216: the button is enabled
    /\ initSeqRef < MaxSeq
    /\ open' = TRUE
    /\ hostRef' = initSeqRef + 1              \* line 230: a fresh host <div>
    /\ hostKids' = <<>>
    /\ MountChatIfNeeded(TRUE, Config(properties), initSeqRef + 1, chatElRef,
                         <<>>, initSeqRef, busy)
    /\ UNCHANGED <<initializingRef, afterReset, inFlightAtReset, now>>
    /\ UNCHANGED <<properties, chatElRef, defined, otherCalls, setOptionsCalls>>
    /\ NotCallback

\* cleanupWidget keeping the handle
CleanupHandleKept(el) == el

\* cleanupWidget, line 115: chatElRef.current = null
CleanupHandle(el) == 0

\* line 202 left out: close does not cancel
CancelSeqForgotten(cur) == cur

\* line 202: cancel in-flight init
CancelSeq(cur) == cur + 1

\* toggle (lines 198-207) when the panel is open: cancel, cleanupWidget
\* (lines 106-117), then the render that removes the panel and the effect
ToggleClose ==
    /\ open
    /\ HasConfig(Config(properties))
    /\ initSeqRef < MaxSeq
    /\ open' = FALSE
    /\ chatElRef' = CleanupHandle(chatElRef)
    /\ hostRef' = 0
    /\ hostKids' = <<>>
    /\ MountChatIfNeeded(FALSE, Config(properties), 0, 0, <<>>,
                         CancelSeq(initSeqRef), FALSE)
    /\ UNCHANGED <<initializingRef, afterReset, inFlightAtReset, now>>
    /\ UNCHANGED <<properties, defined, otherCalls, setOptionsCalls>>
    /\ NotCallback

\* a property-pane change: ChatKitAgentWebPart.render (lines 12-21), and, when a
\* dependency of mountChatIfNeeded changed (line 192), the effect (lines 194-196)
PropertyChanged(field, v) ==
    /\ properties[field] # v
    /\ initSeqRef < MaxSeq
    /\ properties' = [properties EXCEPT ![field] = v]
    /\ properties' \in PropertyBags
    /\ IF Config(properties') = Config(properties)
       THEN /\ UNCHANGED <<initSeqRef, busy, error, attempts>>
            /\ lastMount' = "none"
            /\ UNCHANGED loaderVars
       ELSE MountChatIfNeeded(open, Config(properties'), hostRef, chatElRef,
                              hostKids, initSeqRef, busy)
    /\ UNCHANGED <<initializingRef, afterReset, inFlightAtReset, now>>
    /\ UNCHANGED <<open, hostRef, hostKids, chatElRef, defined, otherCalls,
                   setOptionsCalls>>
    /\ NotCallback

(***************************************************************************)
(* The token endpoint and fetchClientSecret (lines 11-17, 65-80).          *)
(***************************************************************************)
NoToken == [clientSecret |-> Undefined, expiresAt |-> Undefined]

\* answers of the token endpoint: failed is a network error of fetch itself
Responses ==
    { [failed |-> FALSE, ok |-> TRUE, status |-> "200", statusText |-> "OK",
       text |-> "", textFails |-> FALSE,
       client_secret |-> "sk_abc", expires_at |-> Undefined, error |-> Undefined],
      [failed |-> FALSE, ok |-> TRUE, status |-> "200", statusText |-> "OK",
       text |-> "", textFails |-> FALSE,
       client_secret |-> "sk_def", expires_at |-> "1700", error |-> Undefined],
      [failed |-> FALSE, ok |-> FALSE, status |-> "500",
       statusText |-> "Internal Server Error", text |-> "internal", textFails |-> FALSE,
       client_secret |-> Undefined, expires_at |-> Undefined, error |-> Undefined],
      [failed |-> FALSE, ok |-> FALSE, status |-> "503",
       statusText |-> "Service Unavailable", text |-> "", textFails |-> FALSE,
       client_secret |-> Undefined, expires_at |-> Undefined, error |-> Undefined],
      [failed |-> FALSE, ok |-> FALSE, status |-> "502",
       statusText |-> "Bad Gateway", text |-> "partial", textFails |-> TRUE,
       client_secret |-> Undefined, expires_at |-> Undefined, error |-> Undefined],
      [failed |-> FALSE, ok |-> TRUE, status |-> "200", statusText |-> "OK",
       text |-> "", textFails |-> FALSE,
       client_secret |-> Undefined, expires_at |-> Undefined, error |-> "denied"],
      [failed |-> FALSE, ok |-> TRUE, status |-> "200", statusText |-> "OK",
       text |-> "", textFails |-> FALSE,
       client_secret |-> "", expires_at |-> Undefined, error |-> Undefined],
      [failed |-> TRUE, ok |-> FALSE, status |-> "0", statusText |-> "",
       text |-> "", textFails |-> FALSE,
       client_secret |-> Undefined, expires_at |-> Undefined, error |-> Undefined] }

\* JS truthiness of a string | undefined
Truthy(v) == v # Undefined /\ v # ""

\* safeReadText losing the body
SafeReadTextEmpty(res) == ""

\* safeReadText (lines 11-17)
SafeReadText(res) == IF res.textFails THEN "" ELSE res.text

\* line 74
TokenEndpointMessage(res) ==
    <<"Token endpoint failed (", res.status, "): ",
      IF Truthy(SafeReadText(res)) THEN SafeReadText(res) ELSE res.statusText>>

NetworkError == <<"Failed to fetch">>
DefaultTokenError == <<"Failed to get client_secret">>

\* fetchClientSecret (lines 65-80): what the promise settles to on answer res
FetchClientSecret(res) ==
    IF res.failed
    THEN [ok |-> FALSE, message |-> NetworkError,
          client_secret |-> Undefined, expires_at |-> Undefined]
    ELSE IF ~res.ok
    THEN [ok |-> FALSE, message |-> TokenEndpointMessage(res),
          client_secret |-> Undefined, expires_at |-> Undefined]
    ELSE IF ~Truthy(res.client_secret)
    THEN [ok |-> FALSE,
          message |-> IF Truthy(res.error) THEN <<res.error>> ELSE DefaultTokenError,
          client_secret |-> Undefined, expires_at |-> Undefined]
    ELSE [ok |-> TRUE, message |-> NoText,
          client_secret |-> res.client_secret, expires_at |-> res.expires_at]

(***************************************************************************)
(* The body of mountChatIfNeeded after its awaits (lines 136-191).         *)
(***************************************************************************)
\* line 140 without its check: every resuming attempt goes on
SupersededNever(cur, seq) == FALSE

\* line 140: a newer init started
Superseded(cur, seq) == cur # seq

\* line 171 failing: the handle is never kept
HandleCurrentNever(cur, seq) == FALSE

\* line 171
HandleCurrent(cur, seq) == cur = seq

\* line 183 without its check: every failure is surfaced
CatchCurrentAlways(cur, seq) == TRUE

\* line 183 failing for every attempt: no failure is surfaced
CatchCurrentNever(cur, seq) == FALSE

\* line 183
CatchCurrent(cur, seq) == cur = seq

\* line 188 without its check: every attempt clears busy when it returns
FinallyCurrentAlways(cur, seq) == TRUE

\* line 188
FinallyCurrent(cur, seq) == cur = seq

SetStage(n, st) == [attempts EXCEPT ![n].stage = st]

\* attempt n returned: its frame is gone, its outcome st is kept
Returned(n, st) == [attempts EXCEPT ![n] = [NoAttempt EXCEPT !.stage = st]]

\* attempt n mounted its element, whose callback keeps the configuration
Mounted(n) == [attempts EXCEPT ![n] = [NoAttempt EXCEPT !.stage = "ready", !.cfg = attempts[n].cfg]]

\* the catch and finally blocks (lines 182-191) of attempt n for error msg,
\* with cleanupWidget (lines 106-117)
Catch(n, msg) ==
    IF CatchCurrent(initSeqRef, n)
    THEN /\ error' = msg
         /\ hostKids' = <<>>
         /\ chatElRef' = CleanupHandle(chatElRef)
         /\ busy' = FALSE
         /\ attempts' = Returned(n, "failed")
    ELSE /\ UNCHANGED <<error, hostKids, chatElRef>>
         /\ busy' = (IF FinallyCurrent(initSeqRef, n) THEN FALSE ELSE busy)
         /\ attempts' = Returned(n, "dropped")

\* attempt n resumes from `await loadChatKitScriptOnce()` (line 136)
ScriptResume(n) ==
    /\ attempts[n].stage = "script"
    /\ promises[attempts[n].promise] # "pending"
    /\ IF promises[attempts[n].promise] = "resolved"
       THEN /\ attempts' = SetStage(n, "defined")     \* line 137: whenDefined
            /\ UNCHANGED <<error, hostKids, chatElRef, busy>>
       ELSE Catch(n, ScriptLoadError)
    /\ UNCHANGED <<initializingRef, afterReset, inFlightAtReset, now>>
    /\ UNCHANGED <<properties, open, hostRef, initSeqRef, defined,
                   otherCalls, setOptionsCalls>>
    /\ lastMount' = "none"
    /\ UNCHANGED loaderVars
    /\ NotCallback

\* whenDefined (lines 45-63) rejects for attempt n: a tick finds the element
\* undefined and the timeout passed
DefinedTimeout(n) ==
    /\ attempts[n].stage = "defined"
    /\ ~defined
    /\ Catch(n, DefinitionTimeoutError)
    /\ UNCHANGED <<initializingRef, afterReset, inFlightAtReset, now>>
    /\ UNCHANGED <<properties, open, hostRef, initSeqRef, defined,
                   otherCalls, setOptionsCalls>>
    /\ lastMount' = "none"
    /\ UNCHANGED loaderVars
    /\ NotCallback

\* whenDefined resolves for attempt n, which runs lines 139-191; throws: whether
\* el.setOptions throws
DefinedResume(n, throws) ==
    /\ attempts[n].stage = "defined"
    /\ defined
    /\ IF Superseded(initSeqRef, n)
       THEN /\ attempts' = Returned(n, "stale")
            /\ busy' = (IF FinallyCurrent(initSeqRef, n) THEN FALSE ELSE busy)
            /\ UNCHANGED <<error, hostKids, chatElRef, setOptionsCalls>>
       ELSE /\ setOptionsCalls' = [setOptionsCalls EXCEPT ![n] = @ + 1]
            /\ IF throws
               THEN Catch(n, SetOptionsError)
               ELSE /\ hostKids' = (IF attempts[n].host = hostRef THEN <<n>> ELSE hostKids)
                    /\ chatElRef' = (IF HandleCurrent(initSeqRef, n) THEN n ELSE chatElRef)
                    /\ busy' = (IF FinallyCurrent(initSeqRef, n) THEN FALSE ELSE busy)
                    /\ attempts' = Mounted(n)
                    /\ UNCHANGED error
    /\ UNCHANGED <<initializingRef, afterReset, inFlightAtReset, now>>
    /\ UNCHANGED <<properties, open, hostRef, initSeqRef, defined, otherCalls>>
    /\ lastMount' = "none"
    /\ UNCHANGED loaderVars
    /\ NotCallback

(***************************************************************************)
(* The getClientSecret callback of element n (lines 147-160).              *)
(***************************************************************************)
RECURSIVE SumTo(_, _)
SumTo(f, n) == IF n = 0 THEN 0 ELSE f[n] + SumTo(f, n - 1)

\* the POSTs in flight
InflightTotal == SumTo(inflight, MaxSeq)

\* what the widget passes as `current`
CurrentValues == {Undefined, "", "sk_old"}

\* line 149 as the variants that always re-fetch
ServedFromCacheNever(current, cached) == FALSE

\* line 149
ServedFromCache(current, cached) ==
    ~Truthy(current) /\ cached # NoToken /\ Truthy(cached.clientSecret)

\* line 153 without its check: every answer is cached
CacheWriteAlways(cur, seq) == TRUE

\* line 153
CacheWriteCurrent(cur, seq) == cur = seq

\* the widget of attempt n invokes the callback: lines 148-151 up to the fetch
CallbackInvoke(n, current) ==
    /\ attempts[n].stage = "ready"
    /\ Contains(hostKids, n)        \* the widget acts while it is in the document
    /\ IF ServedFromCache(current, tokenRef)
       THEN /\ lastCb' = [NoCb EXCEPT !.kind = "cached", !.current = current,
                                   !.value = <<tokenRef.clientSecret>>]
            /\ UNCHANGED inflight
       ELSE /\ InflightTotal < MaxInflight
            /\ inflight' = [inflight EXCEPT ![n] = @ + 1]
            /\ lastCb' = [NoCb EXCEPT !.kind = "posted", !.current = current]
    /\ UNCHANGED <<initializingRef, afterReset, inFlightAtReset, now>>
    /\ UNCHANGED <<properties, open, busy, error, hostRef, hostKids, chatElRef,
                   tokenRef, mintedFor, initSeqRef, attempts, defined, otherCalls,
                   setOptionsCalls>>
    /\ lastMount' = "none"
    /\ UNCHANGED loaderVars

\* a POST of the callback of element n is answered with res: lines 151-159
FetchComplete(n, res) ==
    /\ inflight[n] > 0
    /\ inflight' = [inflight EXCEPT ![n] = @ - 1]
    /\ LET t == FetchClientSecret(res) IN
       IF t.ok
       THEN /\ tokenRef' = (IF CacheWriteCurrent(initSeqRef, n)
                            THEN [clientSecret |-> t.client_secret, expiresAt |-> t.expires_at]
                            ELSE tokenRef)
            /\ mintedFor' = (IF CacheWriteCurrent(initSeqRef, n)
                             THEN attempts[n].cfg ELSE mintedFor)
            /\ lastCb' = [NoCb EXCEPT !.kind = "resolved", !.value = <<t.client_secret>>,
                                   !.status = res.status,
                                   !.body = IF res.textFails THEN "" ELSE res.text]
       ELSE /\ UNCHANGED <<tokenRef, mintedFor>>
            /\ lastCb' = [NoCb EXCEPT !.kind = "rejected", !.value = t.message,
                                   !.status = res.status,
                                   !.body = IF res.textFails THEN "" ELSE res.text]
    /\ UNCHANGED <<initializingRef, afterReset, inFlightAtReset, now>>
    /\ UNCHANGED <<properties, open, busy, error, hostRef, hostKids, chatElRef,
                   initSeqRef, attempts, defined, otherCalls, setOptionsCalls>>
    /\ lastMount' = "none"
    /\ UNCHANGED loaderVars

(***************************************************************************)
(* The page: the script tag's events, the element's registration, and      *)
(* other component instances calling the shared loader.                    *)
(***************************************************************************)
ScriptLoad ==
    /\ scriptTag = "loading"
    /\ scriptTag' = "loaded"
    /\ promises' = Settle(promises, listeners, "resolved")
    /\ listeners' = {}
    /\ UNCHANGED <<initializingRef, afterReset, inFlightAtReset, now>>
    /\ UNCHANGED <<properties, open, busy, error, hostRef, hostKids, chatElRef,
                   initSeqRef, attempts, windowPromise, inserted, defined,
                   otherCalls, setOptionsCalls>>
    /\ lastMount' = "none"
    /\ NotCallback

ScriptError ==
    /\ scriptTag = "loading"
    /\ scriptTag' = "failed"
    /\ promises' = Settle(promises, listeners, "rejected")
    /\ listeners' = {}
    /\ UNCHANGED <<initializingRef, afterReset, inFlightAtReset, now>>
    /\ UNCHANGED <<properties, open, busy, error, hostRef, hostKids, chatElRef,
                   initSeqRef, attempts, windowPromise, inserted, defined,
                   otherCalls, setOptionsCalls>>
    /\ lastMount' = "none"
    /\ NotCallback

RegisterElement ==
    /\ scriptTag = "loaded"
    /\ ~defined
    /\ defined' = TRUE
    /\ UNCHANGED <<initializingRef, afterReset, inFlightAtReset, now>>
    /\ UNCHANGED <<properties, open, busy, error, hostRef, hostKids, chatElRef,
                   initSeqRef, attempts, otherCalls, setOptionsCalls>>
    /\ lastMount' = "none"
    /\ UNCHANGED loaderVars
    /\ NotCallback

OtherInstanceLoads ==
    /\ otherCalls' = otherCalls \cup {LoaderReturns}
    /\ LoadChatKitScriptOnce
    /\ UNCHANGED <<initializingRef, afterReset, inFlightAtReset, now>>
    /\ UNCHANGED <<properties, open, busy, error, hostRef, hostKids, chatElRef,
                   initSeqRef, attempts, defined, setOptionsCalls>>
    /\ lastMount' = "none"
    /\ NotCallback

(***************************************************************************)
(* The specification.                                                      *)
(***************************************************************************)
Seqs == 1..MaxSeq

Init ==
    /\ properties \in PropertyBags
    /\ open = FALSE
    /\ busy = FALSE
    /\ error = NoText
    /\ hostRef = 0
    /\ hostKids = <<>>
    /\ chatElRef = 0
    /\ tokenRef = NoToken
    /\ initSeqRef = 0
    /\ attempts = [n \in Seqs |-> NoAttempt]
    /\ lastMount = "return120"       \* the effect of the first render: open is false
    /\ windowPromise = 0
    /\ promises = <<>>
    /\ listeners = {}
    /\ scriptTag \in {"absent", "loading", "loaded"}
    /\ inserted = 0
    /\ defined \in (IF scriptTag = "loaded" THEN BOOLEAN ELSE {FALSE})
    /\ otherCalls = {}
    /\ setOptionsCalls = [n \in Seqs |-> 0]
    /\ inflight = [n \in Seqs |-> 0]
    /\ lastCb = NoCb
    /\ initializingRef = FALSE
    /\ afterReset = FALSE
    /\ inFlightAtReset = {}
    /\ now = FirstInstant
    /\ mintedFor = NoAttempt.cfg

Next ==
    \/ ToggleOpen
    \/ ToggleClose
    \/ \E field \in {"lambdaUrl", "workflowId"} :
         \E v \in (IF field = "lambdaUrl" THEN UrlValues ELSE WorkflowValues) :
           PropertyChanged(field, v)
    \/ \E n \in Seqs : ScriptResume(n)
    \/ \E n \in Seqs : DefinedTimeout(n)
    \/ \E n \in Seqs : \E throws \in BOOLEAN : DefinedResume(n, throws)
    \/ \E n \in Seqs : \E current \in CurrentValues : CallbackInvoke(n, current)
    \/ \E n \in Seqs : \E res \in Responses : FetchComplete(n, res)
    \/ ScriptLoad
    \/ ScriptError
    \/ RegisterElement
    \/ OtherInstanceLoads

Spec == Init /\ [][Next]_vars

\* time passes
Tick ==
    /\ now = FirstInstant
    /\ now' = LastInstant
    /\ UNCHANGED <<properties, open, busy, error, hostRef, hostKids, chatElRef,
                   initSeqRef, attempts, defined, otherCalls, setOptionsCalls,
                   initializingRef, afterReset, inFlightAtReset>>
    /\ lastMount' = "none"
    /\ UNCHANGED loaderVars
    /\ NotCallback

NextClock == Next \/ Tick

SpecClock == Init /\ [][NextClock]_vars

\* the continuation of an await runs once its promise has settled: the
\* browser's microtask queue and whenDefined's 50 ms timer are never starved
Fairness ==
    \A n \in Seqs :
        /\ WF_vars(ScriptResume(n))
        /\ WF_vars(\E throws \in BOOLEAN : DefinedResume(n, throws))

FairSpec == Spec /\ Fairness

\* a script element that is loading fires its load or its error event
EventFairness == WF_vars(ScriptLoad \/ ScriptError)

FairLoadSpec == FairSpec /\ EventFairness

(***************************************************************************)
(* The component of src/unnamed/part_001 (lines 81-192): one flag          *)
(* initializingRef instead of the sequence counter, and resetConversation. *)
(* It shares the loader, the endpoint and the page with the component      *)
(* above; initSeqRef does not exist in it and stays 0.                     *)
(***************************************************************************)
\* the elements document.createElement (line 123) has not yet returned
FreeIds == {n \in 1..MaxElements : attempts[n].stage = "none"}
NextId == CHOOSE n \in FreeIds : \A m \in FreeIds : n <= m

\* line 109
MountGuardA(o, c, initializing) == o /\ HasConfig(c) /\ ~initializing

\* line 129
ServedFromCacheA(current, cached) == ~Truthy(current) /\ cached # NoToken

\* mountChatIfNeeded up to its first await (lines 108-119), run with open flag
\* o, configuration c, host h, and the handle el, host children kids, flag
\* initializing and busy flag that the handler left; cleanupWidget (lines
\* 99-106) is line 113
MountChatIfNeededA(o, c, h, el, kids, initializing, busyNow) ==
    IF ~MountGuardA(o, c, initializing) \/ (el # 0 /\ h # 0 /\ Contains(kids, el))
    THEN /\ lastMount' = (IF ~MountGuardA(o, c, initializing) THEN "return109"
                          ELSE "return111")
         /\ initializingRef' = initializing
         /\ busy' = busyNow
         /\ hostKids' = kids
         /\ chatElRef' = el
         /\ UNCHANGED <<error, attempts>>
         /\ UNCHANGED loaderVars
    ELSE /\ FreeIds # {}
         /\ lastMount' = "started"
         /\ hostKids' = <<>>
         /\ chatElRef' = 0
         /\ initializingRef' = TRUE
         /\ busy' = TRUE
         /\ error' = NoText
         /\ attempts' = [attempts EXCEPT ![NextId] =
                           [stage |-> "script", host |-> h, cfg |-> c,
                            promise |-> LoaderReturns]]
         /\ LoadChatKitScriptOnce

\* toggle (lines 161-164) when the panel is closed, with the render and effect
ToggleOpenA ==
    /\ ~open
    /\ HasConfig(Config(properties))          \* line 174: the button is enabled
    /\ open' = TRUE
    /\ hostRef' = 1                           \* line 187: the host <div> is rendered
    /\ MountChatIfNeededA(TRUE, Config(properties), 1, chatElRef, <<>>,
                          initializingRef, busy)
    /\ UNCHANGED <<properties, initSeqRef, now, defined, otherCalls, setOptionsCalls,
                   afterReset, inFlightAtReset>>
    /\ NotCallback

\* toggle (lines 161-164) when the panel is open: cleanupWidget (lines 99-106),
\* then the render that removes the panel and the effect
ToggleCloseA ==
    /\ open
    /\ HasConfig(Config(properties))
    /\ open' = FALSE
    /\ hostRef' = 0
    /\ MountChatIfNeededA(FALSE, Config(properties), 0, 0, <<>>, FALSE, FALSE)
    /\ UNCHANGED <<properties, initSeqRef, now, defined, otherCalls, setOptionsCalls,
                   afterReset, inFlightAtReset>>
    /\ NotCallback

\* a property-pane change: ChatKitAgentWebPart.render (lines 12-21), and, when a
\* dependency of mountChatIfNeeded changed (line 155), the effect (lines 157-159)
PropertyChangedA(field, v) ==
    /\ properties[field] # v
    /\ properties' = [properties EXCEPT ![field] = v]
    /\ properties' \in PropertyBags
    /\ IF Config(properties') = Config(properties)
       THEN /\ UNCHANGED <<initializingRef, busy, hostKids, chatElRef, error, attempts>>
            /\ lastMount' = "none"
            /\ UNCHANGED loaderVars
       ELSE MountChatIfNeededA(open, Config(properties'), hostRef, chatElRef,
                               hostKids, initializingRef, busy)
    /\ UNCHANGED <<open, hostRef, initSeqRef, now, defined, otherCalls, setOptionsCalls,
                   afterReset, inFlightAtReset>>
    /\ NotCallback

\* resetConversation (lines 166-170): the cache is cleared, cleanupWidget, and
\* mountChatIfNeeded of the current render when the panel is open
ResetConversationA ==
    /\ tokenRef' = NoToken
    /\ mintedFor' = NoAttempt.cfg
    /\ afterReset' = TRUE
    /\ inFlightAtReset' = {n \in Seqs : attempts[n].stage \in {"script", "defined"}}
    /\ IF open
       THEN MountChatIfNeededA(open, Config(properties), hostRef, 0, <<>>, FALSE, FALSE)
       ELSE /\ lastMount' = "none"
            /\ hostKids' = <<>>
            /\ chatElRef' = 0
            /\ initializingRef' = FALSE
            /\ busy' = FALSE
            /\ UNCHANGED <<error, attempts>>
            /\ UNCHANGED loaderVars
    /\ lastCb' = NoCb
    /\ UNCHANGED <<properties, open, hostRef, initSeqRef, now, defined, otherCalls,
                   setOptionsCalls, inflight>>

\* the attempts in flight at the reset that this step leaves awaiting
StillInFlight ==
    inFlightAtReset' = {m \in inFlightAtReset : attempts'[m].stage \in {"script", "defined"}}

\* the catch and finally blocks (lines 148-154) of attempt n for error msg,
\* with cleanupWidget (lines 99-106)
CatchA(n, msg) ==
    /\ error' = msg
    /\ hostKids' = <<>>
    /\ chatElRef' = 0
    /\ initializingRef' = FALSE
    /\ busy' = FALSE
    /\ attempts' = Returned(n, "failed")

\* attempt n resumes from `await loadChatKitScriptOnce()` (line 119)
ScriptResumeA(n) ==
    /\ attempts[n].stage = "script"
    /\ promises[attempts[n].promise] # "pending"
    /\ IF promises[attempts[n].promise] = "resolved"
       THEN /\ attempts' = SetStage(n, "defined")     \* line 120: whenDefined
            /\ UNCHANGED <<error, hostKids, chatElRef, busy, initializingRef>>
       ELSE CatchA(n, ScriptLoadError)
    /\ UNCHANGED <<properties, open, hostRef, initSeqRef, now, defined, otherCalls,
                   setOptionsCalls, afterReset>>
    /\ StillInFlight
    /\ lastMount' = "none"
    /\ UNCHANGED loaderVars
    /\ NotCallback

\* whenDefined (lines 44-58) rejects for attempt n
DefinedTimeoutA(n) ==
    /\ attempts[n].stage = "defined"
    /\ ~defined
    /\ CatchA(n, DefinitionTimeoutError)
    /\ UNCHANGED <<properties, open, hostRef, initSeqRef, now, defined, otherCalls,
                   setOptionsCalls, afterReset>>
    /\ StillInFlight
    /\ lastMount' = "none"
    /\ UNCHANGED loaderVars
    /\ NotCallback

\* whenDefined resolves for attempt n, which runs lines 121-154; throws: whether
\* el.setOptions (line 126) or el.focusComposer (line 147) throws
DefinedResumeA(n, throws) ==
    /\ attempts[n].stage = "defined"
    /\ defined
    /\ IF hostRef = 0
       THEN /\ attempts' = Returned(n, "stale")       \* line 121, then finally
            /\ initializingRef' = FALSE
            /\ busy' = FALSE
            /\ UNCHANGED <<error, hostKids, chatElRef, setOptionsCalls>>
       ELSE /\ setOptionsCalls' = [setOptionsCalls EXCEPT ![n] = @ + 1]
            /\ IF throws
               THEN CatchA(n, SetOptionsError)
               ELSE /\ hostKids' = Append(hostKids, n)     \* line 144
                    /\ chatElRef' = n                       \* line 145
                    /\ initializingRef' = FALSE
                    /\ busy' = FALSE
                    /\ attempts' = Mounted(n)
                    /\ UNCHANGED error
    /\ UNCHANGED <<properties, open, hostRef, initSeqRef, now, defined, otherCalls,
                   afterReset>>
    /\ StillInFlight
    /\ lastMount' = "none"
    /\ UNCHANGED loaderVars
    /\ NotCallback

\* the widget of attempt n invokes the callback: lines 128-130 up to the fetch
CallbackInvokeA(n, current) ==
    /\ attempts[n].stage = "ready"
    /\ Contains(hostKids, n)        \* the widget acts while it is in the document
    /\ IF ServedFromCacheA(current, tokenRef)
       THEN /\ lastCb' = [NoCb EXCEPT !.kind = "cached", !.current = current,
                                   !.value = <<tokenRef.clientSecret>>]
            /\ UNCHANGED inflight
       ELSE /\ InflightTotal < MaxInflight
            /\ inflight' = [inflight EXCEPT ![n] = @ + 1]
            /\ lastCb' = [NoCb EXCEPT !.kind = "posted", !.current = current]
    /\ afterReset' = FALSE
    /\ UNCHANGED inFlightAtReset
    /\ UNCHANGED <<properties, open, busy, error, hostRef, hostKids, chatElRef,
                   tokenRef, mintedFor, initSeqRef, now, initializingRef, attempts,
                   defined,
                   otherCalls, setOptionsCalls>>
    /\ lastMount' = "none"
    /\ UNCHANGED loaderVars

\* a POST of the callback of element n is answered with res: lines 130-132
FetchCompleteA(n, res) ==
    /\ inflight[n] > 0
    /\ inflight' = [inflight EXCEPT ![n] = @ - 1]
    /\ LET t == FetchClientSecret(res) IN
       IF t.ok
       THEN /\ tokenRef' = [clientSecret |-> t.client_secret, expiresAt |-> t.expires_at]
            /\ mintedFor' = attempts[n].cfg
            /\ lastCb' = [NoCb EXCEPT !.kind = "resolved", !.value = <<t.client_secret>>,
                                   !.status = res.status,
                                   !.body = IF res.textFails THEN "" ELSE res.text]
       ELSE /\ UNCHANGED <<tokenRef, mintedFor>>
            /\ lastCb' = [NoCb EXCEPT !.kind = "rejected", !.value = t.message,
                                   !.status = res.status,
                                   !.body = IF res.textFails THEN "" ELSE res.text]
    /\ UNCHANGED <<properties, open, busy, error, hostRef, hostKids, chatElRef,
                   initSeqRef, now, initializingRef, afterReset, inFlightAtReset,
                   attempts, defined,
                   otherCalls, setOptionsCalls>>
    /\ lastMount' = "none"
    /\ UNCHANGED loaderVars

NextA ==
    \/ ToggleOpenA
    \/ ToggleCloseA
    \/ \E field \in {"lambdaUrl", "workflowId"} :
         \E v \in (IF field = "lambdaUrl" THEN UrlValues ELSE WorkflowValues) :
           PropertyChangedA(field, v)
    \/ ResetConversationA
    \/ \E n \in Seqs : ScriptResumeA(n)
    \/ \E n \in Seqs : DefinedTimeoutA(n)
    \/ \E n \in Seqs : \E throws \in BOOLEAN : DefinedResumeA(n, throws)
    \/ \E n \in Seqs : \E current \in CurrentValues : CallbackInvokeA(n, current)
    \/ \E n \in Seqs : \E res \in Responses : FetchCompleteA(n, res)
    \/ ScriptLoad
    \/ ScriptError
    \/ RegisterElement
    \/ OtherInstanceLoads

SpecA == Init /\ [][NextA]_vars

(***************************************************************************)
(* Properties.                                                             *)
(***************************************************************************)
\* attempt n awaits the script or the element's definition
Awaiting(n) == attempts[n].stage \in {"script", "defined"}

\* attempt n resumes in this step
Resumes(n) == Awaiting(n) /\ attempts'[n] # attempts[n]

\* C1 (generation safety): an attempt that resumes from an await while
\* initSeqRef no longer equals the seq it captured configures and attaches no
\* widget, leaves the host container, the handle, busy and the error text as
\* they are and does not become ready; and while the panel is closed no
\* widget is attached and the handle is null.
C1_GenerationSafety ==
    /\ [][\A n \in Seqs :
            (Resumes(n) /\ initSeqRef # n) =>
                /\ attempts'[n].stage # "ready"
                /\ UNCHANGED <<hostKids, chatElRef, setOptionsCalls, busy, error>>]_vars
    /\ [](~open => (chatElRef = 0 /\ hostKids = <<>>))

\* open, close, and then the attempt of the open resumes with the element defined
C1_Witness ==
    \E n \in Seqs : attempts[n].stage = "stale" /\ ~open /\ n < initSeqRef

\* the promises handed to the callers of the loader that still hold one
LoaderCallers ==
    otherCalls \cup {attempts[n].promise : n \in {m \in Seqs : Awaiting(m)}}

\* C3 (idempotent script load): over all calls of loadChatKitScriptOnce, by the
\* attempts of this component and by other instances, at most one script element
\* is inserted, at most one promise is created, and every caller holds the
\* page-global promise.
C3_IdempotentLoad ==
    /\ inserted <= 1
    /\ Len(promises) <= 1
    /\ \A p \in LoaderCallers : p = windowPromise /\ p = 1

\* two attempts of this component and another instance wait on the promise
C3_Witness ==
    /\ otherCalls # {}
    /\ \E m, n \in Seqs : m # n /\ attempts[m].stage = "script" /\ attempts[n].stage = "script"
    /\ inserted = 1

\* a step of the callback of element n: its invocation, or the answer to its POST
Invoked == lastCb'.kind \in {"cached", "posted"}
Answered(n) == inflight'[n] < inflight[n]

\* C2 without its last clause: with a cached credential an invocation with no
\* current secret returns the cached secret and posts nothing; an invocation
\* with a current secret, or with an empty cache, posts exactly once.
CachingOnInvoke ==
    Invoked =>
        IF ~Truthy(lastCb'.current) /\ tokenRef # NoToken
        THEN /\ lastCb'.kind = "cached"
             /\ lastCb'.value = <<tokenRef.clientSecret>>
             /\ UNCHANGED <<inflight, tokenRef>>
        ELSE /\ lastCb'.kind = "posted"
             /\ InflightTotal' = InflightTotal + 1
             /\ UNCHANGED tokenRef

\* C2 as stated: ... and every successful answer replaces the cached
\* credential with the fetched one.
C2_AsStated ==
    [][/\ CachingOnInvoke
       /\ lastCb'.kind = "resolved" =>
            (tokenRef' # NoToken /\ <<tokenRef'.clientSecret>> = lastCb'.value)]_vars

\* C2 (credential caching, amended): as CachingOnInvoke, and a successful
\* answer to the callback of element n replaces the cached credential with
\* the fetched one when initSeqRef still equals n and leaves the cache
\* unchanged otherwise; an answer completes exactly one POST.
C2_CredentialCaching ==
    [][/\ CachingOnInvoke
       /\ \A n \in Seqs :
            (Answered(n) /\ lastCb'.kind = "resolved") =>
                /\ InflightTotal' = InflightTotal - 1
                /\ IF initSeqRef = n
                   THEN tokenRef' # NoToken /\ <<tokenRef'.clientSecret>> = lastCb'.value
                   ELSE tokenRef' = tokenRef]_vars

\* the mounted widget was served the cached secret, with no POST in flight
C2_Witness ==
    /\ lastCb.kind = "cached"
    /\ tokenRef # NoToken
    /\ lastCb.value = <<tokenRef.clientSecret>>
    /\ InflightTotal = 0

\* attempt n is the live attempt and fails in this step
FailsLive(n) ==
    /\ Resumes(n)
    /\ initSeqRef = n
    /\ \/ attempts[n].stage = "script" /\ promises[attempts[n].promise] = "rejected"
       \/ attempts[n].stage = "defined" /\ ~defined
       \/ attempts[n].stage = "defined" /\ attempts'[n].stage # "ready"

\* the message of the failure of attempt n in this step
FailureMessage(n) ==
    IF attempts[n].stage = "script" THEN ScriptLoadError
    ELSE IF ~defined THEN DefinitionTimeoutError
    ELSE SetOptionsError

\* C4 (initialization failure handling): when the live attempt fails (script
\* load rejected, definition timeout, setOptions throwing) the error text is
\* the failure's message, the host container is empty, the handle is null,
\* busy is false, and the attempt ends handled (failed), not rejected.
C4_FailureHandling ==
    [][\A n \in Seqs :
          FailsLive(n) =>
              /\ error' = FailureMessage(n)
              /\ hostKids' = <<>>
              /\ chatElRef' = 0
              /\ busy' = FALSE
              /\ attempts'[n].stage = "failed"
              /\ open' /\ UNCHANGED initSeqRef]_vars

\* the live attempt timed out waiting for the element
C4_Witness ==
    /\ open
    /\ initSeqRef \in Seqs
    /\ attempts[initSeqRef].stage = "failed"
    /\ error = DefinitionTimeoutError
    /\ ~busy /\ chatElRef = 0 /\ hostKids = <<>>

\* C5 (close): a step that closes the open panel leaves the handle null, the
\* host container empty, initSeqRef strictly greater than before, so that no
\* awaiting attempt is current, the panel closed and busy false.
C5_Close ==
    [][(open /\ ~open') =>
          /\ chatElRef' = 0
          /\ hostKids' = <<>>
          /\ hostRef' = 0
          /\ initSeqRef' > initSeqRef
          /\ \A n \in Seqs : Awaiting(n) => (Awaiting(n)' /\ n < initSeqRef')
          /\ ~busy']_vars

\* the panel was closed while an attempt was awaiting, after a widget was ready
C5_Witness ==
    /\ ~open
    /\ ~busy
    /\ \E n \in Seqs : Awaiting(n) /\ n < initSeqRef
    /\ \E n \in Seqs : attempts[n].stage \in {"ready", "failed"}

\* the statuses of the answers the endpoint refuses a request with
ErrorStatuses == {r.status : r \in {x \in Responses : ~x.failed /\ ~x.ok}}

\* the token endpoint answers a POST with a non-success status in this step
Refused == lastCb'.kind = "rejected" /\ lastCb'.status \in ErrorStatuses

\* the rejection's message holds the status and the body read from the answer
RefusalMessage ==
    /\ Contains(lastCb'.value, lastCb'.status)
    /\ lastCb'.body # "" => Contains(lastCb'.value, lastCb'.body)

C9_ConfigGating ==
    [][(~HasConfig(Config(properties)) /\ ~HasConfig(Config(properties'))) =>
          /\ lastMount' # "started"
          /\ InflightTotal' <= InflightTotal
          /\ UNCHANGED setOptionsCalls
          /\ hostKids' \in {hostKids, <<>>}
          /\ chatElRef' \in {chatElRef, 0}]_vars

\* C10 (config gating, message): an invocation of mountChatIfNeeded with
\* endpointUrl or workflowId empty leaves the error text set to the
\* "configuration required" message.
C10_ConfigMessage ==
    [][(lastMount' = "return120" /\ ~HasConfig(Config(properties'))) =>
          error' = ConfigRequiredMessage]_vars

\* the panel is open on a live attempt that awaits, the script promise has
\* resolved and the element is registered
Mounting ==
    /\ open
    /\ initSeqRef \in Seqs
    /\ Awaiting(initSeqRef)
    /\ promises[attempts[initSeqRef].promise] = "resolved"
    /\ defined

\* Ready: the widget of the live attempt is the host's only child and the
\* handle, configured by one setOptions call; busy is false, no error shows
IsReady ==
    /\ open
    /\ chatElRef # 0
    /\ chatElRef = initSeqRef
    /\ attempts[chatElRef].stage = "ready"
    /\ hostKids = <<chatElRef>>
    /\ setOptionsCalls[chatElRef] = 1
    /\ ~busy
    /\ error = NoText

\* C8 (end-to-end mount): once the script promise has resolved and the element
\* is registered, an open panel whose live attempt awaits eventually is Ready,
\* unless the panel is closed or setOptions throws (an error shows); setOptions
\* is invoked exactly once on a mounted widget; and the cache holds the secret
\* the live callback last obtained from the endpoint, which invocations with
\* no current secret return without a POST: the cache changes only by a
\* successful answer, and to the secret of that answer.
C8_EndToEndMount ==
    /\ Mounting ~> (IsReady \/ ~open \/ error # NoText)
    /\ [](\A n \in Seqs : attempts[n].stage = "ready" => setOptionsCalls[n] = 1)
    /\ [][/\ tokenRef' # tokenRef =>
               (lastCb'.kind = "resolved" /\ lastCb'.value = <<tokenRef'.clientSecret>>)
          /\ (lastCb'.kind = "resolved" /\ IsReady /\ Answered(chatElRef)) =>
               <<tokenRef'.clientSecret>> = lastCb'.value
          /\ (Invoked /\ ~Truthy(lastCb'.current) /\ tokenRef # NoToken) =>
               (lastCb'.value = <<tokenRef.clientSecret>> /\ UNCHANGED inflight)]_vars

\* Ready, and the mounted widget is served the secret it obtained before
C8_Witness ==
    /\ IsReady
    /\ lastCb.kind = "cached"
    /\ lastCb.value = <<"sk_abc">>
    /\ InflightTotal = 0

\* C7 (reset clears cache): after resetConversation, the next invocation of
\* the credential callback without a current secret POSTs to the endpoint and
\* is not served a cached secret, whatever fetch was in flight at the reset.
C7_ResetClearsCache ==
    [][(afterReset /\ Invoked /\ ~Truthy(lastCb'.current)) =>
          lastCb'.kind = "posted"]_vars

\* attempt n awaits and its sequence number is the counter's
Live(n) == Awaiting(n) /\ n = initSeqRef

\* C11 (at most one in-flight mount attempt): every awaiting attempt carries a
\* sequence number at most the counter's, so only the attempt that carries
\* the counter's value is live and all others are stale; while the panel is
\* closed no attempt is live; an attempt that starts takes a sequence number
\* above the counter that no attempt took before; the host holds at most one
\* widget element.
C11_OneLiveAttempt ==
    /\ [](/\ \A n \in Seqs : Awaiting(n) => n <= initSeqRef
          /\ ~open => \A n \in Seqs : ~Live(n)
          /\ Cardinality({n \in Seqs : Live(n)}) <= 1
          /\ Len(hostKids) <= 1)
    /\ [][lastMount' = "started" =>
            /\ initSeqRef' > initSeqRef
            /\ attempts[initSeqRef'].stage = "none"
            /\ attempts'[initSeqRef'].stage = "script"]_vars

\* the mount routine ran again while an earlier attempt awaits: one stale and
\* one live attempt await together
C11_Witness ==
    /\ open
    /\ \E m \in Seqs : \E n \in Seqs : m < n /\ Awaiting(m) /\ Live(n)

\* C12 (widget handle invariant): while the handle is set the panel is open,
\* no error shows, the handle's element was mounted by its attempt, and it is
\* the one child of the host.
C12_HandleInvariant ==
    chatElRef # 0 =>
        /\ open
        /\ error = NoText
        /\ hostRef # 0
        /\ attempts[chatElRef].stage = "ready"
        /\ hostKids = <<chatElRef>>

\* the handle of a widget mounted after an earlier attempt of the same page
C12_Witness ==
    /\ chatElRef > 1
    /\ open
    /\ hostKids = <<chatElRef>>

\* C13 (credential invalidation on teardown): the cache is empty whenever the
\* panel is closed, and an invocation without a current secret that finds the
\* cache empty POSTs to the endpoint.
C13_ClearedOnTeardown ==
    /\ [](~open => tokenRef = NoToken)
    /\ [][(Invoked /\ ~Truthy(lastCb'.current) /\ tokenRef = NoToken) =>
            lastCb'.kind = "posted"]_vars

\* the shared script-loading promise has rejected
Rejected == windowPromise # 0 /\ promises[windowPromise] = "rejected"

\* the Failed state a script-load error leaves
ScriptFailed ==
    /\ error = ScriptLoadError
    /\ ~busy
    /\ chatElRef = 0
    /\ hostKids = <<>>

\* C14 (script-load failure is permanent for the page): once the shared
\* promise has rejected it stays the rejected shared promise; no step inserts
\* a script element, creates a promise or adds a listener; every attempt that
\* starts and every other instance that calls the loader gets that promise;
\* and a live attempt awaiting it ends in Failed with the script-load error,
\* unless it is closed or superseded first.
C14_FailurePermanent ==
    /\ [][Rejected =>
            /\ Rejected'
            /\ UNCHANGED loaderVars
            /\ lastMount' = "started" => attempts'[initSeqRef'].promise = windowPromise
            /\ otherCalls' \subseteq (otherCalls \cup {windowPromise})]_vars
    /\ \A n \in Seqs :
         (Rejected /\ Live(n) /\ attempts[n].stage = "script")
             ~> (ScriptFailed \/ initSeqRef # n)

\* a second attempt failed on the rejected promise after the first had failed
C14_Witness ==
    /\ Rejected
    /\ open
    /\ ScriptFailed
    /\ inserted <= 1
    /\ \E m \in Seqs : \E n \in Seqs :
         m < n /\ attempts[m].stage = "failed" /\ attempts[n].stage = "failed"

\* C15 (stale credential fetches are discarded): a fetch of the callback of
\* element n that completes while initSeqRef differs from n leaves the cache
\* unchanged, and the cache changes only in a step that successfully answers
\* the callback whose sequence number is the counter's.
C15_StaleFetchDiscarded ==
    [][/\ \A n \in Seqs : (Answered(n) /\ initSeqRef # n) => UNCHANGED tokenRef
       /\ tokenRef' # tokenRef =>
            /\ lastCb'.kind = "resolved"
            /\ initSeqRef \in Seqs
            /\ Answered(initSeqRef)]_vars

\* a superseded callback's fetch resolved with a secret other than the cached
\* one, which an earlier fetch had written
C15_Witness ==
    /\ lastCb.kind = "resolved"
    /\ tokenRef # NoToken
    /\ lastCb.value # <<tokenRef.clientSecret>>

\* C16 (reset is close, clear, reopen): a reset leaves the cache empty and,
\* when the panel is open and configured, starts a new attempt; an attempt
\* that awaited when the reset ran is invalidated: it mounts no widget and
\* changes neither the host nor the handle when it resumes; so the host
\* never holds more than the one widget of the new attempt.
C16_ResetEquivalent ==
    [][/\ (~afterReset /\ afterReset') =>
            /\ tokenRef' = NoToken
            /\ (open /\ HasConfig(Config(properties))) => lastMount' = "started"
       /\ \A n \in inFlightAtReset :
            /\ attempts'[n].stage # "ready"
            /\ Resumes(n) => UNCHANGED <<hostKids, chatElRef>>]_vars

\* the live attempt awaits and was started for configuration c
InFlightFor(c) ==
    /\ initSeqRef \in Seqs
    /\ Live(initSeqRef)
    /\ attempts[initSeqRef].cfg = c

\* C17 (open is a no-op when Initializing or Ready): an invocation of
\* mountChatIfNeeded in an open panel whose widget is attached, or whose live
\* attempt awaits and was started for the configuration of the invocation,
\* starts no attempt and leaves the sequence counter, the handle, the host,
\* the busy flag, the error text and the attempts unchanged.
C17_OpenNoOp ==
    [][(/\ lastMount' # "none"
        /\ open /\ open'
        /\ \/ AlreadyMounted(chatElRef, hostKids)
           \/ InFlightFor(Config(properties'))) =>
          /\ lastMount' # "started"
          /\ UNCHANGED <<initSeqRef, chatElRef, hostKids, busy, error, attempts>>]_vars

\* attempt n, superseded by a close or a newer attempt, fails in this step:
\* its script promise rejected or its wait for the element timed out
FailsStale(n) ==
    /\ Resumes(n)
    /\ initSeqRef # n
    /\ \/ attempts[n].stage = "script" /\ promises[attempts[n].promise] = "rejected"
       \/ attempts[n].stage = "defined" /\ ~defined

\* C18 (stale failures are silently dropped): the failure of a superseded
\* attempt leaves the error text, the host's children, the handle and the
\* busy flag unchanged.
C18_StaleFailureDropped ==
    [][\A n \in Seqs :
          FailsStale(n) =>
              /\ UNCHANGED <<error, hostKids, chatElRef, busy>>
              /\ attempts'[n].stage = "dropped"]_vars

\* a superseded attempt failed while the newer attempt awaits: the panel still
\* shows it connecting, with no error
C18_Witness ==
    /\ open
    /\ busy
    /\ error = NoText
    /\ \E m \in Seqs : \E n \in Seqs :
         m < n /\ attempts[m].stage = "dropped" /\ Live(n)

\* attempt n runs after an earlier attempt failed or mounted a widget
Retry(n) ==
    \E m \in Seqs : m < n /\ attempts[m].stage \in {"failed", "ready"}

\* C19 (recoverability): opening the closed panel, whatever the earlier
\* attempts left, starts an attempt with a sequence number above the
\* counter that awaits the script, with busy set and the error text cleared;
\* and such a retry, live and awaiting with the script promise resolved and
\* the element registered, eventually is Ready with its own widget, unless it
\* is closed or superseded or setOptions throws.
C19_Recoverable ==
    /\ [][(~open /\ open') =>
            /\ lastMount' = "started"
            /\ initSeqRef' > initSeqRef
            /\ attempts'[initSeqRef'].stage = "script"
            /\ busy'
            /\ error' = NoText]_vars
    /\ \A n \in Seqs :
         (open /\ Live(n) /\ Retry(n) /\ defined
               /\ promises[attempts[n].promise] = "resolved")
           ~> \/ IsReady /\ chatElRef = n
              \/ initSeqRef # n
              \/ attempts[n].stage = "failed"

\* Ready again, with a new widget, after the first attempt had timed out and
\* the panel was closed and reopened
C19_Witness ==
    /\ IsReady
    /\ chatElRef = 3
    /\ attempts[1].stage = "failed"
    /\ attempts[2].stage = "none"

\* the instant an expires_at of the endpoint denotes
ParseTime(t) == IF t = "1700" THEN 1700 ELSE 0

\* credential cred carries an expiry that has passed at instant t
Expired(cred, t) ==
    /\ cred # NoToken
    /\ cred.expiresAt # Undefined
    /\ ParseTime(cred.expiresAt) <= t

\* C20 (only still-valid credentials are served from cache): an invocation
\* served from the cache is served a credential that has not expired, and an
\* invocation that finds the cached credential expired POSTs to the endpoint.
C20_ValidFromCache ==
    [][Invoked =>
          /\ lastCb'.kind = "cached" => ~Expired(tokenRef, now)
          /\ Expired(tokenRef, now) => lastCb'.kind = "posted"]_vars

\* C21 (busy tracks the live attempt): busy is set exactly when the attempt
\* that carries the counter's sequence number awaits the script or the
\* element; so it is clear while the panel is closed, while a widget is
\* mounted and while an error shows; and the completion of a stale attempt
\* leaves it unchanged.
C21_BusyTracksLive ==
    /\ [](/\ busy <=> (initSeqRef \in Seqs /\ Live(initSeqRef))
          /\ ~open => ~busy
          /\ chatElRef # 0 => ~busy
          /\ error # NoText => ~busy)
    /\ [][\A n \in Seqs :
            (Resumes(n) /\ initSeqRef # n /\ ~Awaiting(n)') => UNCHANGED busy]_vars

\* a stale attempt returned at its sequence check while the newer attempt
\* awaits: busy is still set
C21_Witness ==
    /\ open
    /\ busy
    /\ \E m \in Seqs : \E n \in Seqs :
         m < n /\ attempts[m].stage = "stale" /\ Live(n)

\* C22 (a cached credential is bound to its configuration): a secret served
\* from the cache to the widget in the host was obtained by a fetch made with
\* the configuration that widget's callback is bound to.
C22_CacheBoundToConfig ==
    [][(Invoked /\ lastCb'.kind = "cached") =>
          /\ hostKids # <<>>
          /\ mintedFor = attempts[hostKids[1]].cfg]_vars

\* C23 (the script loader always settles): the promise loadChatKitScriptOnce
\* returned eventually resolves or rejects, whatever script tag the document
\* held at the first call, and no live attempt awaits it forever.
C23_LoaderSettles ==
    /\ (windowPromise # 0) ~> (windowPromise # 0 /\ promises[windowPromise] # "pending")
    /\ \A n \in Seqs :
         (Live(n) /\ attempts[n].stage = "script")
             ~> ~(Live(n) /\ attempts[n].stage = "script")

====
